---- MODULE Spec2Model ----
(***************************************************************************)
(* Model of the low-volume pairwise ranker (ranker/cpp): class Player      *)
(* (player.h, player.cpp) and class LowVolRanker (low_vol_ranker.h,        *)
(* low_vol_ranker.cpp).                                                    *)
(*                                                                         *)
(* C++ `float` values are modelled as decimal floating-point numbers       *)
(* [m, e] standing for m * 10^e with a four-digit mantissa, and every      *)
(* arithmetic expression of the source is evaluated operation by           *)
(* operation in that arithmetic.  Entity ids are 0-based as in the source; *)
(* -1 is the sentinel of get_best_player / get_best_opp.                   *)
(***************************************************************************)
EXTENDS Integers, Sequences, FiniteSets, TLC

\* ------------------------------------------------------------------------
\* Bounds of the model
\* ------------------------------------------------------------------------
MaxPlayers == 3
MaxComps == 2

\* ------------------------------------------------------------------------
\* float arithmetic
\*
\* The operations are functions, so that an argument is evaluated once,
\* before the operation is applied, as a C++ operand is.
\* ------------------------------------------------------------------------
MantDigits == 4
ExpTerms == 9

Float == [m : Int, e : Int]

Abs[n \in Int] == IF n < 0 THEN -n ELSE n
Sgn[n \in Int] == IF n < 0 THEN -1 ELSE IF n > 0 THEN 1 ELSE 0

Pow10Tab == <<1, 10, 100, 1000, 10000, 100000, 1000000, 10000000, 100000000, 1000000000>>
Pow10Int[k \in Nat] == Pow10Tab[k + 1]

MantMax == Pow10Int[MantDigits]
MantMin == Pow10Int[MantDigits - 1]

\* the number of decimal digits of m, 0 < m < 2^31
NumDigits[m \in Int] ==
    IF m < 100000
    THEN (IF m < 100 THEN (IF m < 10 THEN 1 ELSE 2)
          ELSE IF m < 1000 THEN 3 ELSE IF m < 10000 THEN 4 ELSE 5)
    ELSE (IF m < 10000000 THEN (IF m < 1000000 THEN 6 ELSE 7)
          ELSE IF m < 100000000 THEN 8 ELSE IF m < 1000000000 THEN 9 ELSE 10)

\* m without its last k digits, rounded half up (k > 0)
RoundAt[m \in Int, k \in Int] ==
    (m \div Pow10Int[k]) + (IF (m \div Pow10Int[k - 1]) % 10 >= 5 THEN 1 ELSE 0)

\* a rounded mantissa that reached MantMax is MantMin with the next exponent
Carry[r \in Int, e \in Int] ==
    IF r >= MantMax THEN [m |-> MantMin, e |-> e + 1] ELSE [m |-> r, e |-> e]

\* m > 0 has MantDigits + k digits
NormTo[m \in Int, e \in Int, k \in Int] ==
    IF k <= 0 THEN [m |-> m * Pow10Int[-k], e |-> e + k]
    ELSE Carry[RoundAt[m, k], e + k]

\* m >= 0: bring the mantissa into [MantMin, MantMax), rounding half up
Norm[m \in Int, e \in Int] ==
    IF m = 0 THEN [m |-> 0, e |-> 0] ELSE NormTo[m, e, NumDigits[m] - MantDigits]

WithSign[s \in Int, a \in Float] == [m |-> s * a.m, e |-> a.e]

MkFloat[m \in Int, e \in Int] == WithSign[Sgn[m], Norm[Abs[m], e]]

FromInt[n \in Int] == MkFloat[n, 0]

FNeg[a \in Float] == [m |-> -a.m, e |-> a.e]

FMul[a \in Float, b \in Float] == MkFloat[a.m * b.m, a.e + b.e]

\* b # 0
FDiv[a \in Float, b \in Float] ==
    MkFloat[Sgn[a.m] * Sgn[b.m] * ((Abs[a.m] * MantMax) \div Abs[b.m]),
            a.e - b.e - MantDigits]

\* a and b with exponents at most MantDigits apart, brought to exponent e
AddAt[a \in Float, b \in Float, e \in Int] ==
    MkFloat[a.m * Pow10Int[a.e - e] + b.m * Pow10Int[b.e - e], e]

FAdd[a \in Float, b \in Float] ==
    IF a.m = 0 THEN b
    ELSE IF b.m = 0 THEN a
    ELSE IF a.e - b.e > MantDigits THEN a
    ELSE IF b.e - a.e > MantDigits THEN b
    ELSE AddAt[a, b, IF a.e < b.e THEN a.e ELSE b.e]

FSub[a \in Float, b \in Float] == FAdd[a, FNeg[b]]

FGt[a \in Float, b \in Float] == FSub[a, b].m > 0
FLt[a \in Float, b \in Float] == FSub[a, b].m < 0
FEq[a \in Float, b \in Float] == FSub[a, b].m = 0

\* largest integer not above a (a small enough for int)
FFloor[a \in Float] ==
    IF a.e >= 0 THEN a.m * Pow10Int[a.e]
    ELSE IF -a.e > MantDigits THEN (IF a.m < 0 THEN -1 ELSE 0)
    ELSE IF a.m >= 0 THEN a.m \div Pow10Int[-a.e]
    ELSE -((-a.m + Pow10Int[-a.e] - 1) \div Pow10Int[-a.e])

\* conversion float -> int truncates toward zero
FTrunc[a \in Float] == IF a.m >= 0 THEN FFloor[a] ELSE -FFloor[FNeg[a]]

\* Newton's iteration for the integer square root of n, from x down
ISqrtIter[n \in Int, x \in Int] ==
    IF (x + n \div x) \div 2 >= x THEN x ELSE ISqrtIter[n, (x + n \div x) \div 2]

\* the square root of n * 10^e, e even
SqrtAt[n \in Int, e \in Int] == MkFloat[ISqrtIter[n, n], e \div 2]

\* a >= 0
FSqrt[a \in Float] ==
    IF a.m = 0 THEN a
    ELSE IF a.e % 2 = 0
         THEN SqrtAt[a.m * Pow10Int[MantDigits], a.e - MantDigits]
         ELSE SqrtAt[a.m * Pow10Int[MantDigits + 1], a.e - MantDigits - 1]

Zero == FromInt[0]
One == FromInt[1]
Half == MkFloat[5, -1]
Ln10 == MkFloat[2302585, -6]

\* a float of magnitude below 2 as an integer count of 1/MantMax
ToFixed[a \in Float] ==
    IF a.e + MantDigits >= 0 THEN a.m * Pow10Int[a.e + MantDigits]
    ELSE IF -a.e > 2 * MantDigits THEN 0
    ELSE Sgn[a.m] * ((Abs[a.m] + Pow10Int[-a.e - MantDigits] \div 2)
                        \div Pow10Int[-a.e - MantDigits])

\* integer division rounding to nearest, d > 0
RoundDiv[n \in Int, d \in Int] == Sgn[n] * ((2 * Abs[n] + d) \div (2 * d))

\* exp(z) = 1 + z + z^2/2! + ... in units of 1/MantMax, |z| < 1.2: the sum
\* from term k on, `term` being term k - 1
ExpSeries[z \in Int, k \in Int, term \in Int, sum \in Int] ==
    IF k > ExpTerms THEN sum
    ELSE ExpSeries[z, k + 1, RoundDiv[term * z, k * MantMax],
                   sum + RoundDiv[term * z, k * MantMax]]

\* r * 10^n
Scale[r \in Float, n \in Int] == [m |-> r.m, e |-> r.e + n]

\* 10^y = 10^n * exp(ln(10) * (y - n))
Pow10Near[y \in Float, n \in Int] ==
    Scale[MkFloat[ExpSeries[ToFixed[FMul[FSub[y, FromInt[n]], Ln10]], 1, MantMax, MantMax],
                  -MantDigits], n]

\* pow(10, y), with n the integer nearest to y
FPow10[y \in Float] == Pow10Near[y, FFloor[FAdd[y, Half]]]

\* ------------------------------------------------------------------------
\* class Player (player.h, player.cpp)
\* ------------------------------------------------------------------------
\* const float Q = log(10) / 400;
Q == FDiv[Ln10, FromInt[400]]
M_PI == MkFloat[3141593, -6]

\* Player(int id, float rating = 0, float rd = 350)
Player(id, rating, rd) ==
    [id_ |-> id, rating_ |-> rating, rd_ |-> rd, num_comps_ |-> 0]

\* the conversion of an int to a Player as it would be if it dropped the id
PlayerOfId_zero(id) == Player(0, FromInt[0], FromInt[350])

\* an int converted to a Player by the converting constructor Player(id)
PlayerOfId(id) == Player(id, FromInt[0], FromInt[350])

get_rating(p) == p.rating_
get_rd(p) == p.rd_
get_num_comps(p) == p.num_comps_

\* set_rating as it would be with the member assigned
set_rating_stores(p, rating) == [p EXCEPT !.rating_ = rating]

\* void set_rating(float rating) { rating = rating; }  assigns the
\* parameter to itself; the member rating_ is not touched
set_rating(p, rating) == p

\* set_rd as it would be if it stored the negated value
set_rd_negates(p, rd) == [p EXCEPT !.rd_ = FNeg[rd]]

\* set_rd as it would be with the member assigned
set_rd_stores(p, rd) == [p EXCEPT !.rd_ = rd]

\* void set_rd(float rd) { rd = rd; }
set_rd(p, rd) == p

\* 1 / sqrt(1 + 3 * Q * Q * opp_rd * opp_rd / M_PI / M_PI)
get_g(p, opp_rd) ==
    FDiv[One,
         FSqrt[FAdd[One,
                    FDiv[FDiv[FMul[FMul[FMul[FMul[FromInt[3], Q], Q], opp_rd], opp_rd],
                              M_PI],
                         M_PI]]]]

\* 1 / (1 + pow(10, -g * (rating_ - opp_rating) / 400))
get_expected_score(p, opp_rating, opp_rd, g) ==
    FDiv[One,
         FAdd[One,
              FPow10[FDiv[FMul[FNeg[g], FSub[p.rating_, opp_rating]], FromInt[400]]]]]

\* 1 / (Q * Q * get_g(opp_rd) * get_g(opp_rd) * get_expected_score(...)
\*        * (1 - get_expected_score(...)))
get_d2(p, opp_rating, opp_rd) ==
    FDiv[One,
         FMul[FMul[FMul[FMul[FMul[Q, Q], get_g(p, opp_rd)], get_g(p, opp_rd)],
                   get_expected_score(p, opp_rating, opp_rd, get_g(p, opp_rd))],
              FSub[One, get_expected_score(p, opp_rating, opp_rd, get_g(p, opp_rd))]]]

\* rating_ + Q / (1 / (rd_ * rd_) + 1 / d2) * g * (score - get_expected_score(...))
get_new_rating(p, score, opp_rating, opp_rd, d2) ==
    LET g == get_g(p, opp_rd)
    IN  FAdd[p.rating_,
             FMul[FMul[FDiv[Q, FAdd[FDiv[One, FMul[p.rd_, p.rd_]], FDiv[One, d2]]], g],
                  FSub[score, get_expected_score(p, opp_rating, opp_rd, g)]]]

\* sqrt(1 / (1 / (rd_ * rd_) + 1 / d2))
get_new_rd(p, d2) ==
    FSqrt[FDiv[One, FAdd[FDiv[One, FMul[p.rd_, p.rd_]], FDiv[One, d2]]]]

\* p10 / ((1 + p10) * (1 + p10))
score_frac[p10 \in Float] == FDiv[p10, FMul[FAdd[One, p10], FAdd[One, p10]]]

\* frac * frac
score_frac2[frac \in Float] == FMul[frac, frac]

\* compute_score_var with frac = p10 / (1 + p10)
compute_score_var_single(p, opp_rating, opp_rd) ==
    FMul[score_frac2[FDiv[FPow10[FDiv[FSub[p.rating_, opp_rating], FromInt[400]]],
                          FAdd[One, FPow10[FDiv[FSub[p.rating_, opp_rating], FromInt[400]]]]]],
         FAdd[FMul[p.rd_, p.rd_], FMul[opp_rd, opp_rd]]]

\* compute_score_var as it is when the product underflows to 0
compute_score_var_zero(p, opp_rating, opp_rd) == Zero

\* float p10 = pow(10, (rating_ - opp_rating) / 400); frac and frac2 from it;
\* return frac2 * (rd_ * rd_ + opp_rd * opp_rd)
compute_score_var(p, opp_rating, opp_rd) ==
    FMul[score_frac2[score_frac[FPow10[FDiv[FSub[p.rating_, opp_rating], FromInt[400]]]]],
         FAdd[FMul[p.rd_, p.rd_], FMul[opp_rd, opp_rd]]]

\* update as it would be without num_comps_++
update_no_count(p, score, opp_rating, opp_rd) ==
    LET d2 == get_d2(p, opp_rating, opp_rd)
    IN  set_rd(set_rating(p, get_new_rating(p, score, opp_rating, opp_rd, d2)),
               get_new_rd(p, d2))

\* void Player::update(float score, float opp_rating, float opp_rd):
\* set_rating(new_rating); set_rd(new_rd); num_comps_++;
update(p, score, opp_rating, opp_rd) ==
    LET d2 == get_d2(p, opp_rating, opp_rd)
    IN  [set_rd(set_rating(p, get_new_rating(p, score, opp_rating, opp_rd, d2)),
                get_new_rd(p, d2))
            EXCEPT !.num_comps_ = @ + 1]

\* ------------------------------------------------------------------------
\* class LowVolRanker (low_vol_ranker.h, low_vol_ranker.cpp)
\* ------------------------------------------------------------------------
VARIABLES
    players_,      \* std::vector<Player> players_
    comps_,        \* std::vector<Comp> comps_
    avoid_,        \* std::vector<Player> avoid_
    avoid_twice_,  \* bool avoid_twice_
    op,            \* the last call that has a body: its name and arguments
    ret,           \* the pair the last call returned (<<>> when it returned none)
    upd_calls,     \* the Player::update invocations made by the last call
    hist,          \* every receive_comp call so far, with its update flag
    oob,           \* TRUE once players_ was indexed out of range
    pre,           \* players_, comps_ and avoid_ as they were when that call began
    again          \* TRUE when that call is a get_next_comp() right after another

vars == <<players_, comps_, avoid_, avoid_twice_, op, ret, upd_calls, hist, oob, pre,
          again>>

\* the members a call can change, as the call finds them
Members == [players_ |-> players_, comps_ |-> comps_, avoid_ |-> avoid_]

\* arguments the callers pass
PlayerArgs == {<<0, 350>>, <<1000, 50>>}
ScoreArgs == {FromInt[1]}

\* element i (0-based) of a vector
At(v, i) == v[i + 1]
Size(v) == Len(v)
Ids(v) == 0 .. (Size(v) - 1)

\* the callers name the two entities of a comparison in index order
CompPairs(players) == {pr \in Ids(players) \X Ids(players) : pr[1] < pr[2]}

\* a Comp built with the two ids in the wrong members
Comp_swapped(id1, id2, score) == [id1 |-> id2, id2 |-> id1, score |-> score]

\* struct Comp { int id1; int id2; float score; }
Comp(id1, id2, score) == [id1 |-> id1, id2 |-> id2, score |-> score]

Call(name, args) == [name |-> name, args |-> args]

\* the test of avoid_ as it would be if it never found an entry
InAvoid_never(avoid, i) == FALSE

\* std::find(avoid_.begin(), avoid_.end(), i) != avoid_.end(): an element of
\* avoid_ is the Player made from an id, and it matches the index it was
\* made from
InAvoid(avoid, i) == \E k \in 1 .. Len(avoid) : avoid[k].id_ = i

\* LowVolRanker(bool avoid_twice = true)
Init ==
    /\ players_ = <<>>
    /\ comps_ = <<>>
    /\ avoid_ = <<>>
    /\ avoid_twice_ \in BOOLEAN
    /\ op = Call("LowVolRanker", <<>>)
    /\ ret = <<>>
    /\ upd_calls = <<>>
    /\ hist = <<>>
    /\ oob = FALSE
    /\ pre = [players_ |-> <<>>, comps_ |-> <<>>, avoid_ |-> <<>>]
    /\ again = FALSE

\* players_.emplace_back(rating, rd): the two floats are bound to the first
\* two parameters of Player(int id, float rating = 0, float rd = 350)
emplace_back(players, rating, rd) ==
    Append(players, Player(FTrunc[rating], rd, FromInt[350]))

\* void addPlayer(float rating = 0, float rd = 350)
addPlayer(rating, rd) ==
    /\ Size(players_) < MaxPlayers
    /\ players_' = emplace_back(players_, FromInt[rating], FromInt[rd])
    /\ op' = Call("addPlayer", <<rating, rd>>)
    /\ pre' = Members
    /\ again' = FALSE
    /\ ret' = <<>>
    /\ upd_calls' = <<>>
    /\ UNCHANGED <<comps_, avoid_, avoid_twice_, hist, oob>>

\* the loop of get_best_player as it would be with >= in place of >
RECURSIVE best_player_from_last(_, _, _, _, _)
best_player_from_last(players, avoid, i, max_id, max_rd) ==
    IF i >= Size(players) THEN max_id
    ELSE IF ~FLt[get_rd(At(players, i)), max_rd] /\ ~InAvoid(avoid, i)
         THEN best_player_from_last(players, avoid, i + 1, i, get_rd(At(players, i)))
         ELSE best_player_from_last(players, avoid, i + 1, max_id, max_rd)

\* the loop of get_best_player from index i on
RECURSIVE best_player_from(_, _, _, _, _)
best_player_from(players, avoid, i, max_id, max_rd) ==
    IF i >= Size(players) THEN max_id
    ELSE IF FGt[get_rd(At(players, i)), max_rd] /\ ~InAvoid(avoid, i)
         THEN best_player_from(players, avoid, i + 1, i, get_rd(At(players, i)))
         ELSE best_player_from(players, avoid, i + 1, max_id, max_rd)

\* get_best_player as it would be if it found no entity
get_best_player_none(players, avoid) == -1

\* int get_best_player() const
get_best_player(players, avoid) ==
    best_player_from(players, avoid, 0, -1, FromInt[0])

\* get_best_opp as it would be without the test `i != id`
NotSelf_always(i, id) == TRUE

\* the test `i != id` as it would be with the comparison made one index off
NotSelf_shifted(i, id) == i # id + 1

\* the test `i != id` of get_best_opp: id is converted to size_t, so the
\* sentinel -1 differs from every index
NotSelf(i, id) == i # id

\* the loop of get_best_opp as it would be with >= in place of >
RECURSIVE best_opp_from_last(_, _, _, _, _, _)
best_opp_from_last(players, avoid, id, i, max_id, max_var) ==
    IF i >= Size(players) THEN max_id
    ELSE IF NotSelf(i, id) /\ ~InAvoid(avoid, i)
         THEN LET var == compute_score_var(At(players, id),
                             get_rating(At(players, i)), get_rd(At(players, i)))
              IN  IF ~FLt[var, max_var]
                  THEN best_opp_from_last(players, avoid, id, i + 1, i, var)
                  ELSE best_opp_from_last(players, avoid, id, i + 1, max_id, max_var)
         ELSE best_opp_from_last(players, avoid, id, i + 1, max_id, max_var)

\* the loop of get_best_opp from index i on (id a valid index)
RECURSIVE best_opp_from(_, _, _, _, _, _)
best_opp_from(players, avoid, id, i, max_id, max_var) ==
    IF i >= Size(players) THEN max_id
    ELSE IF NotSelf(i, id) /\ ~InAvoid(avoid, i)
         THEN LET var == compute_score_var(At(players, id),
                             get_rating(At(players, i)), get_rd(At(players, i)))
              IN  IF FGt[var, max_var]
                  THEN best_opp_from(players, avoid, id, i + 1, i, var)
                  ELSE best_opp_from(players, avoid, id, i + 1, max_id, max_var)
         ELSE best_opp_from(players, avoid, id, i + 1, max_id, max_var)

\* get_best_opp(id) evaluates players_[id] for every index that passes the
\* test of line 52; with id out of range that read is undefined
OppReadsOutOfRange(players, avoid, id) ==
    /\ id \notin Ids(players)
    /\ \E i \in Ids(players) : NotSelf(i, id) /\ ~InAvoid(avoid, i)

\* int get_best_opp(int id) const: the values it can return
get_best_opp(players, avoid, id) ==
    IF OppReadsOutOfRange(players, avoid, id)
    THEN (-1) .. (Size(players) - 1)
    ELSE IF id \notin Ids(players) THEN {-1}
    ELSE {best_opp_from(players, avoid, id, 0, -1, FromInt[0])}

\* get_next_comp as it would be if it emptied avoid_ once it had used it
get_next_comp_clears ==
    LET id1 == get_best_player(players_, avoid_)
    IN  /\ \E id2 \in get_best_opp(players_, avoid_, id1) : ret' = <<id1, id2>>
        /\ oob' = (oob \/ OppReadsOutOfRange(players_, avoid_, id1))
        /\ op' = Call("get_next_comp", <<>>)
        /\ pre' = Members
        /\ again' = (op.name = "get_next_comp")
        /\ upd_calls' = <<>>
        /\ avoid_' = <<>>
        /\ UNCHANGED <<players_, comps_, avoid_twice_, hist>>

\* std::pair<int, int> get_next_comp() const
get_next_comp ==
    LET id1 == get_best_player(players_, avoid_)
    IN  /\ \E id2 \in get_best_opp(players_, avoid_, id1) : ret' = <<id1, id2>>
        /\ oob' = (oob \/ OppReadsOutOfRange(players_, avoid_, id1))
        /\ op' = Call("get_next_comp", <<>>)
        /\ pre' = Members
        /\ again' = (op.name = "get_next_comp")
        /\ upd_calls' = <<>>
        /\ UNCHANGED <<players_, comps_, avoid_, avoid_twice_, hist>>

\* the record of one Player::update invocation
UpdCall(id, score, opp_rating, opp_rd) ==
    [id |-> id, score |-> score, opp_rating |-> opp_rating, opp_rd |-> opp_rd]

\* receive_comp as it would be with the reset of avoid_ outside `if (update)`
receive_comp_resets(id1, id2, score, upd) ==
    /\ Size(comps_) < MaxComps
    /\ id1 \in Ids(players_)
    /\ id2 \in Ids(players_)
    /\ comps_' = Append(comps_, Comp(id1, id2, score))
    /\ IF upd
       THEN \E rating2 \in {get_rating(At(players_, id2))},
               rd2 \in {get_rd(At(players_, id2))} :
            \E pl1 \in {[players_ EXCEPT
                            ![id1 + 1] = update(At(players_, id1), score, rating2, rd2)]} :
            \E score2 \in {FSub[FromInt[1], score]},
               rating1 \in {get_rating(At(pl1, id1))},
               rd1 \in {get_rd(At(pl1, id1))} :
                /\ players_' = [pl1 EXCEPT
                                    ![id2 + 1] = update(At(pl1, id2), score2, rating1, rd1)]
                /\ upd_calls' = <<UpdCall(id1, score, rating2, rd2),
                                  UpdCall(id2, score2, rating1, rd1)>>
       ELSE /\ upd_calls' = <<>>
            /\ UNCHANGED players_
    /\ avoid_' = IF avoid_twice_ THEN <<PlayerOfId(id1), PlayerOfId(id2)>> ELSE avoid_
    /\ op' = Call("receive_comp", <<id1, id2, score, upd>>)
    /\ pre' = Members
    /\ again' = FALSE
    /\ hist' = Append(hist, [id1 |-> id1, id2 |-> id2, score |-> score, update |-> upd])
    /\ ret' = <<>>
    /\ UNCHANGED <<avoid_twice_, oob>>

\* void receive_comp(int id1, int id2, float score, bool update = true)
receive_comp(id1, id2, score, upd) ==
    /\ Size(comps_) < MaxComps
    /\ id1 \in Ids(players_)
    /\ id2 \in Ids(players_)
    /\ comps_' = Append(comps_, Comp(id1, id2, score))
    /\ IF upd
       THEN \* arguments are passed by value: each is evaluated before the call
            \E rating2 \in {get_rating(At(players_, id2))},
               rd2 \in {get_rd(At(players_, id2))} :
            \E pl1 \in {[players_ EXCEPT
                            ![id1 + 1] = update(At(players_, id1), score, rating2, rd2)]} :
            \E score2 \in {FSub[FromInt[1], score]},
               rating1 \in {get_rating(At(pl1, id1))},
               rd1 \in {get_rd(At(pl1, id1))} :
                /\ players_' = [pl1 EXCEPT
                                    ![id2 + 1] = update(At(pl1, id2), score2, rating1, rd1)]
                /\ upd_calls' = <<UpdCall(id1, score, rating2, rd2),
                                  UpdCall(id2, score2, rating1, rd1)>>
                /\ avoid_' = IF avoid_twice_
                             THEN <<PlayerOfId(id1), PlayerOfId(id2)>>
                             ELSE avoid_
       ELSE /\ upd_calls' = <<>>
            /\ UNCHANGED <<players_, avoid_>>
    /\ op' = Call("receive_comp", <<id1, id2, score, upd>>)
    /\ pre' = Members
    /\ again' = FALSE
    /\ hist' = Append(hist, [id1 |-> id1, id2 |-> id2, score |-> score, update |-> upd])
    /\ ret' = <<>>
    /\ UNCHANGED <<avoid_twice_, oob>>

\* void adjust_ratings() { /* TODO */ }: an empty body
adjust_ratings == UNCHANGED vars

\* void dump_ratings(std::string filename) const { /* TODO */ }: an empty body
dump_ratings == UNCHANGED vars

AddPlayerStep == \E a \in PlayerArgs : addPlayer(a[1], a[2])
GetNextCompStep == get_next_comp
ReceiveCompStep ==
    \E pr \in CompPairs(players_), score \in ScoreArgs, upd \in BOOLEAN :
        receive_comp(pr[1], pr[2], score, upd)
AdjustRatingsStep == adjust_ratings
DumpRatingsStep == dump_ratings

Next ==
    \/ AddPlayerStep
    \/ GetNextCompStep
    \/ ReceiveCompStep
    \/ AdjustRatingsStep
    \/ DumpRatingsStep

Spec == Init /\ [][Next]_vars

\* ------------------------------------------------------------------------
\* Properties
\* ------------------------------------------------------------------------
\* the last call was receive_comp(id1, id2, score, update = true)
IsUpdateCall == op.name = "receive_comp" /\ op.args[4]
CallId1 == op.args[1]
CallId2 == op.args[2]
CallScore == op.args[3]

C2_RdStrictlyDecreases ==
    IsUpdateCall =>
        \A k \in 1 .. Len(upd_calls) :
            FGt[upd_calls[k].opp_rd, FromInt[0]] =>
                FLt[get_rd(At(players_, upd_calls[k].id)),
                    get_rd(At(pre.players_, upd_calls[k].id))]

\* the expected outcome Player::update computed for invocation k of the call
ExpectedOf(k) ==
    LET c == upd_calls[k]
        p == At(pre.players_, c.id)
    IN  get_expected_score(p, c.opp_rating, c.opp_rd, get_g(p, c.opp_rd))

\* C3: every update whose score exceeds the expected outcome strictly
\* increases the entity's stored rating (a win between two equally rated
\* entities in particular).
C3_WinRaisesRating ==
    (IsUpdateCall /\ CallId1 # CallId2) =>
        \A k \in 1 .. Len(upd_calls) :
            FGt[upd_calls[k].score, ExpectedOf(k)] =>
                FGt[get_rating(At(players_, upd_calls[k].id)),
                    get_rating(At(pre.players_, upd_calls[k].id))]

\* C4: after addPlayer(rating, rd) the new entity's get_rating() is the
\* supplied rating and its get_rd() is the supplied rd.
C4_RegistrationRoundTrip ==
    op.name = "addPlayer" =>
        /\ Size(players_) = Size(pre.players_) + 1
        /\ FEq[get_rating(At(players_, Size(players_) - 1)), FromInt[op.args[1]]]
        /\ FEq[get_rd(At(players_, Size(players_) - 1)), FromInt[op.args[2]]]

\* the pairs get_next_comp can return from the current players_ when no
\* entity is excluded
UnrestrictedPairs ==
    LET id1 == get_best_player(players_, <<>>)
    IN  {<<id1, id2>> : id2 \in get_best_opp(players_, <<>>, id1)}

\* C5: the get_next_comp() that immediately follows
\* receive_comp(a, b, score, true) returns a pair with neither slot a or b
\* when avoid_twice_ is set; when it is not set, a and b are not excluded
\* and the pair is the one selected among all entities.
C5_AvoidAfterOutcome ==
    [][(IsUpdateCall /\ op'.name = "get_next_comp") =>
            IF avoid_twice_
            THEN /\ ret'[1] \notin {CallId1, CallId2}
                 /\ ret'[2] \notin {CallId1, CallId2}
            ELSE /\ ~InAvoid(avoid_, CallId1)
                 /\ ~InAvoid(avoid_, CallId2)
                 /\ ret' \in UnrestrictedPairs]_vars

\* a selection among three entities made while the two participants of the
\* preceding outcome are excluded, one of them being the entity that would
\* otherwise be picked first
C5_Witness ==
    /\ op.name = "get_next_comp"
    /\ ~again
    /\ avoid_twice_
    /\ Size(players_) = 3
    /\ Len(avoid_) = 2
    /\ Len(hist) > 0
    /\ hist[Len(hist)].update
    /\ InAvoid(avoid_, get_best_player(players_, <<>>))
    /\ ret[1] \in Ids(players_)
    /\ ~InAvoid(avoid_, ret[1])
    /\ ret[2] = -1

\* some receive_comp call so far had update = true
HasUpdate == \E k \in 1 .. Len(hist) : hist[k].update

\* the most recent receive_comp call with update = true
LastUpdate ==
    hist[CHOOSE k \in 1 .. Len(hist) :
            hist[k].update /\ \A j \in (k + 1) .. Len(hist) : ~hist[j].update]

\* C6 as stated: with avoid_twice_ set, a get_next_comp() that directly
\* follows another get_next_comp() no longer excludes anyone, i.e. returns a
\* pair selected among all entities.
C6_ExcludedInNextRoundOnly ==
    (op.name = "get_next_comp" /\ again /\ avoid_twice_) =>
        /\ \A i \in Ids(players_) : ~InAvoid(avoid_, i)
        /\ ret \in UnrestrictedPairs

\* C6 amended: with avoid_twice_ set, every get_next_comp() made after an
\* update-triggering receive_comp(a, b, ...) and before the next one, the
\* first or any later, leaves avoid_ as it found it and returns a pair with
\* neither slot a or b.
C6_ExcludedUntilNextUpdate ==
    (op.name = "get_next_comp" /\ avoid_twice_ /\ HasUpdate) =>
        /\ avoid_ = pre.avoid_
        /\ InAvoid(avoid_, LastUpdate.id1)
        /\ InAvoid(avoid_, LastUpdate.id2)
        /\ ret[1] \notin {LastUpdate.id1, LastUpdate.id2}
        /\ ret[2] \notin {LastUpdate.id1, LastUpdate.id2}

\* a second get_next_comp() in a row that still passes over the participants
\* of the last update although one of them would otherwise be picked first
C6_Witness ==
    /\ op.name = "get_next_comp"
    /\ again
    /\ avoid_twice_
    /\ HasUpdate
    /\ Size(players_) = 3
    /\ InAvoid(avoid_, get_best_player(players_, <<>>))
    /\ ret[1] \in Ids(players_)
    /\ ret \notin UnrestrictedPairs

\* C7: receive_comp appends exactly the entry (id1, id2, score) to comps_
\* whatever `update` is, addPlayer and get_next_comp leave comps_ alone, and
\* comps_ holds one entry per receive_comp call so far, in call order.
C7_LedgerAppendOnly ==
    /\ op.name = "receive_comp" =>
            comps_ = Append(pre.comps_,
                            [id1 |-> CallId1, id2 |-> CallId2, score |-> CallScore])
    /\ op.name \in {"addPlayer", "get_next_comp"} => comps_ = pre.comps_
    /\ Len(comps_) = Len(hist)
    /\ \A k \in 1 .. Len(hist) :
            comps_[k] = [id1 |-> hist[k].id1, id2 |-> hist[k].id2,
                         score |-> hist[k].score]

\* a receive_comp with update = false appended after one with update = true,
\* for a different pair
C7_Witness ==
    /\ op.name = "receive_comp"
    /\ ~op.args[4]
    /\ Len(comps_) = 2
    /\ hist[1].update
    /\ comps_[1] # comps_[2]

\* the ids get_next_comp could choose from: those not found in avoid_
Eligible == {i \in Ids(pre.players_) : ~InAvoid(pre.avoid_, i)}

\* C8: get_next_comp() returns (-1, -1) when no entity is eligible and
\* (e, -1) when e is the only eligible entity.
C8_Sentinels ==
    op.name = "get_next_comp" =>
        /\ Eligible = {} => ret = <<-1, -1>>
        /\ \A e \in Eligible : Eligible = {e} => ret = <<e, -1>>

\* a selection with exactly one of three entities eligible
C8_Witness ==
    /\ op.name = "get_next_comp"
    /\ Size(players_) = 3
    /\ Cardinality(Eligible) = 1
    /\ ret[1] \in Eligible
    /\ ret[2] = -1

\* C9: get_next_comp() changes neither players_ nor comps_ nor avoid_ nor
\* avoid_twice_, and a get_next_comp() that directly follows another returns
\* the same pair.
C9_SelectionIsPure ==
    [][op'.name = "get_next_comp" =>
            /\ players_' = players_
            /\ comps_' = comps_
            /\ avoid_' = avoid_
            /\ avoid_twice_' = avoid_twice_
            /\ (op.name = "get_next_comp" => ret' = ret)]_vars

\* a repeated get_next_comp() with a non-empty avoid_ and a real pair or slot
\* returned
C9_Witness ==
    /\ op.name = "get_next_comp"
    /\ again
    /\ Len(avoid_) = 2
    /\ Len(comps_) > 0
    /\ ret[1] # -1
    /\ pre = Members

\* the number of receive_comp calls with update = true in which i was id1 or
\* id2
UpdatesOf(i) ==
    Cardinality({k \in 1 .. Len(hist) :
                    hist[k].update /\ i \in {hist[k].id1, hist[k].id2}})

\* C10: receive_comp(id1, id2, score, true) with id1 # id2 raises num_comps_
\* of id1 and of id2 by one and leaves every other entity's num_comps_ as it
\* was; every entity's num_comps_ is the number of update-triggering calls it
\* took part in.
C10_CountsComparisons ==
    /\ (IsUpdateCall /\ CallId1 # CallId2) =>
            \A i \in Ids(players_) :
                get_num_comps(At(players_, i)) =
                    get_num_comps(At(pre.players_, i))
                        + (IF i \in {CallId1, CallId2} THEN 1 ELSE 0)
    /\ \A i \in Ids(players_) : get_num_comps(At(players_, i)) = UpdatesOf(i)

\* a second update of one entity, against a different opponent, with a third
\* entity left out of the first
C10_Witness ==
    /\ IsUpdateCall
    /\ Size(players_) = 3
    /\ Len(hist) = 2
    /\ hist[1].update
    /\ \E i \in Ids(players_) : get_num_comps(At(players_, i)) = 2
    /\ \E i \in Ids(players_) : get_num_comps(At(players_, i)) = 1

\* C11: callers register entities with a non-negative rd, and then no
\* sequence of addPlayer and receive_comp calls leaves a Player with a
\* negative rd_.
C11_RdNeverNegative ==
    (\A a \in PlayerArgs : a[2] >= 0) =>
        \A i \in Ids(players_) : ~FLt[get_rd(At(players_, i)), FromInt[0]]

\* three entities, two of them registered with different rd, one updated twice
C11_Witness ==
    /\ IsUpdateCall
    /\ Size(players_) = 3
    /\ \E i, j \in Ids(pre.players_) : At(players_, i).rating_ # At(players_, j).rating_
    /\ \E i \in Ids(players_) : get_num_comps(At(players_, i)) = 2

\* players_ after addPlayer(0, 350), addPlayer(0, 350), addPlayer(1000, 50)
ScenarioPlayers ==
    emplace_back(emplace_back(emplace_back(<<>>, FromInt[0], FromInt[350]),
                              FromInt[0], FromInt[350]),
                 FromInt[1000], FromInt[50])

\* C12: after addPlayer(0, 350), addPlayer(0, 350), addPlayer(1000, 50) and
\* no receive_comp, get_next_comp() returns (0, 1) or (1, 0).
C12_ThreeEntityScenario ==
    (op.name = "get_next_comp" /\ players_ = ScenarioPlayers /\ comps_ = <<>>) =>
        ret \in {<<0, 1>>, <<1, 0>>}

\* the scenario's get_next_comp() call
C12_Witness ==
    /\ op.name = "get_next_comp"
    /\ players_ = ScenarioPlayers
    /\ comps_ = <<>>
    /\ hist = <<>>
    /\ avoid_ = <<>>
    /\ ret[1] \in {0, 1}

C14_FirstSlotHighestRd ==
    (op.name = "get_next_comp" /\ Eligible # {}) =>
        /\ ret[1] \in Eligible
        /\ \A j \in Eligible :
              /\ ~FGt[get_rd(At(players_, j)), get_rd(At(players_, ret[1]))]
              /\ FEq[get_rd(At(players_, j)), get_rd(At(players_, ret[1]))] => ret[1] <= j

\* three entities, none excluded, tie on rd after an update: entity 0 is
\* returned
C14_Witness ==
    /\ op.name = "get_next_comp"
    /\ HasUpdate
    /\ Size(players_) = 3
    /\ Eligible = {0, 1, 2}
    /\ \A j \in Eligible : FEq[get_rd(At(players_, j)), get_rd(At(players_, 0))]
    /\ ret[1] = 0

\* the entities get_best_opp(f) chooses from
Candidates(f) == Eligible \ {f}

\* the score variance get_best_opp(f) computes for candidate j
ScoreVarOf(f, j) ==
    compute_score_var(At(pre.players_, f), get_rating(At(pre.players_, j)),
                      get_rd(At(pre.players_, j)))

C16_AvoidSetContents ==
    IF avoid_twice_ /\ HasUpdate
    THEN /\ Len(avoid_) = 2
         /\ avoid_[1].id_ = LastUpdate.id1
         /\ avoid_[2].id_ = LastUpdate.id2
    ELSE avoid_ = <<>>

\* two update-triggering outcomes for different pairs: avoid_ holds the
\* second pair, which shares only one entity with the first
C16_Witness ==
    /\ avoid_twice_
    /\ Len(hist) = 2
    /\ hist[1].update
    /\ hist[2].update
    /\ <<hist[1].id1, hist[1].id2>> # <<hist[2].id1, hist[2].id2>>
    /\ Len(avoid_) = 2
    /\ avoid_[2].id_ # hist[1].id2

\* C17: set_rating and set_rd return the Player as it was, and no call
\* changes the id_, rating_ or rd_ of a Player already in players_:
\* Player::update changes num_comps_ only.
C17_SettersStoreNothing ==
    /\ \A i \in Ids(players_) :
          /\ set_rating(At(players_, i), FromInt[0]) = At(players_, i)
          /\ set_rd(At(players_, i), FromInt[0]) = At(players_, i)
    /\ \A i \in Ids(pre.players_) :
          At(players_, i) =
              [At(pre.players_, i) EXCEPT !.num_comps_ = get_num_comps(At(players_, i))]

\* an entity updated for the second time, against an opponent whose stored
\* rating differs from its own, keeps the values it was registered with
C17_Witness ==
    /\ IsUpdateCall
    /\ Len(hist) = 2
    /\ hist[1].update
    /\ get_num_comps(At(players_, CallId1)) = 2
    /\ get_rating(At(players_, CallId1)) # get_rating(At(players_, CallId2))
    /\ get_rating(At(players_, CallId1)) = get_rating(At(pre.players_, CallId1))

\* C18: receive_comp(id1, id2, score, false) appends to comps_ and leaves
\* players_ and avoid_ as they were.
C18_NoUpdateChangesLedgerOnly ==
    (op.name = "receive_comp" /\ ~op.args[4]) =>
        /\ players_ = pre.players_
        /\ avoid_ = pre.avoid_
        /\ Len(comps_) = Len(pre.comps_) + 1

\* an outcome with update = false for a pair other than the one held in
\* avoid_, which stays as the earlier update-triggering outcome set it
C18_Witness ==
    /\ op.name = "receive_comp"
    /\ ~op.args[4]
    /\ Len(avoid_) = 2
    /\ hist[1].update
    /\ <<avoid_[1].id_, avoid_[2].id_>> # <<CallId1, CallId2>>
    /\ <<avoid_[1].id_, avoid_[2].id_>> = <<hist[1].id1, hist[1].id2>>

\* C19: when the first slot of get_next_comp() is an index of players_, the
\* second slot is -1 or a different index.
C19_NeverPairsWithItself ==
    (op.name = "get_next_comp" /\ ret[1] # -1) =>
        /\ ret[1] \in Ids(players_)
        /\ ret[2] = -1 \/ (ret[2] \in Ids(players_) /\ ret[2] # ret[1])

\* the first slot holds the entity whose score variance against itself
\* would be at least that of the entity returned in the second slot
C19_Witness ==
    /\ op.name = "get_next_comp"
    /\ Size(players_) = 3
    /\ ret[1] \in Ids(players_)
    /\ ret[2] \in Ids(players_)
    /\ ret[2] # ret[1]
    /\ ~FLt[ScoreVarOf(ret[1], ret[1]), ScoreVarOf(ret[1], ret[2])]

\* C20: no get_next_comp() call so far has evaluated players_[id] with id
\* outside [0, size): when get_best_player returned -1, get_best_opp(-1)
\* found every index in avoid_, or players_ empty, and read no Player.
C20_NoOutOfRangeRead ==
    /\ ~oob
    /\ (op.name = "get_next_comp" /\ ret[1] = -1) =>
            /\ ~OppReadsOutOfRange(pre.players_, pre.avoid_, ret[1])
            /\ Eligible = {}
            /\ ret[2] = -1

\* get_best_opp(-1) called on a collection of two entities, both in avoid_
C20_Witness ==
    /\ op.name = "get_next_comp"
    /\ ret = <<-1, -1>>
    /\ Size(players_) = 2
    /\ Len(avoid_) = 2
    /\ \A i \in Ids(players_) : NotSelf(i, ret[1]) /\ InAvoid(avoid_, i)

====
